---- MODULE Spec2Model ----
(***************************************************************************)
(* Operand example programs: the iMessage webhook ingester (imd.go) and    *)
(* the long-term-memory chatbot (ltm.go and its simpler variants).         *)
(*                                                                         *)
(* Texts are sequences of runes (code points); a request body, an          *)
(* attachment and a URL are records.  Every call to a collaborator (the    *)
(* indexing API, object storage, search, completion) is one step whose     *)
(* outcome is chosen by the environment and which is appended to a log.    *)
(***************************************************************************)
EXTENDS Integers, Sequences, FiniteSets, TLC

VARIABLES
    storage,    \* run(): whether an S3 client was configured (storage != nil)
    pc,         \* per request: position of its handler goroutine
    body,       \* per request: the HTTP body as received
    req,        \* per request: the decoded request, Message sanitized
    att,        \* per request: the index body built for the attachment
    calls,      \* per request: the downstream calls made, in order
    status      \* per request: the response status written (0: none yet)

hvars == <<storage, pc, body, req, att, calls, status>>

VARIABLES
    variant,       \* which chatbot program runs: "ltm" or "gpt"
    cpc,           \* position of run()
    client,        \* operandClient != nil
    collectionID,  \* operandCollectionID (0: the empty string)
    deferred,      \* the deferred DeleteObject is registered
    mh,            \* the message history (mh.Messages)
    objects,       \* the objects of the Operand collection
    nread,         \* lines read from stdin so far
    message,       \* the trimmed line of the current turn
    contents,      \* GenerateResponse: response.Contents of the search
    prompt,        \* GenerateResponse: the prompt sent to the completion API
    response,      \* the reply of the current turn
    events,        \* external calls and prints of the run, in order
    cerr           \* the error run() returns ("": none)

cvars == <<variant, cpc, client, collectionID, deferred, mh, objects, nread,
           message, contents, prompt, response, events, cerr>>

VARIABLES
    lhist,   \* LastN: the receiver's messages
    ln,      \* LastN: the argument n
    lres,    \* LastN: the slice returned
    lpc      \* LastN: "call" before, "ret" after the call

lvars == <<lhist, ln, lres, lpc>>

----------------------------------------------------------------------------
(* Bounds of the model. *)

\* longest message text of a webhook body, in runes
MaxLen == 3
\* number of distinct uuid values uuid.NewString() may draw
MaxUuid == 2
\* lines the chatbot reads from stdin before end of input
MaxLines == 3
\* longest result list the search service returns
MaxHits == 2

\* Completed turns of the longest run a search is made in.
MaxTurns == 5
\* longest history LastN is applied to on its own
MaxHist == 3
\* largest n LastN is called with on its own
MaxN == 5

----------------------------------------------------------------------------
(* Webhook ingester: data. *)

\* Request slots; the sequential specification uses slot 1 only.
Reqs == {1, 2}

\* Sample runes: 'h' and ' ' (printable: a letter, the ASCII space), BEL and
\* NBSP (not printable: a control character, a non-ASCII space).
Runes == {104, 32, 7, 160}

PrintableRunes == {104, 32}

\* unicode.IsPrint restricted to Runes
IsPrint(r) == r \in PrintableRunes

Texts == UNION {[1..n -> Runes] : n \in 0..MaxLen}

Senders == {"alice", "bob"}

\* req.Attachment after decoding: nil when the field is absent or null, else
\* the base64-decoded bytes (a non-nil slice, possibly of length 0).
NilAttachment == [isNil |-> TRUE, bytes |-> <<>>]

Attachments == {NilAttachment,
                [isNil |-> FALSE, bytes |-> <<>>],
                [isNil |-> FALSE, bytes |-> <<37>>]}

AttachmentTypes == {"", "image/jpeg", "image/png", "application/pdf", "image/gif"}

\* A body the JSON decoder rejects.
Malformed == [ok |-> FALSE, From |-> "", Message |-> <<>>,
              Attachment |-> NilAttachment, AttachmentType |-> ""]

Bodies == {Malformed} \cup
          [ok : {TRUE}, From : Senders, Message : Texts,
           Attachment : Attachments, AttachmentType : AttachmentTypes]

NoUrl == [category |-> "", id |-> 0]

NoBody == [type |-> "", url |-> NoUrl]

\* What the indexing endpoint may answer: a status code, or a transport error.
IndexOutcomes == {"201", "200", "500", "neterr"}

StoreOutcomes == {"ok", "err"}

----------------------------------------------------------------------------
(* Webhook ingester: helpers. *)

\* Fault: the Decode error is ignored.
DecodeOKIgnoringError(b) == TRUE

\* json.NewDecoder(r.Body).Decode(&req) returned no error
DecodeOK(b) == b.ok

\* The mapping closure handed to strings.Map: the rune, or -1 to drop it.
KeepPrintable(c) == IF IsPrint(c) THEN c ELSE -1

\* Fault: the text is cut at its first non-printable rune.
RECURSIVE SanitizeUntilBad(_)
SanitizeUntilBad(s) ==
    IF s = <<>> \/ KeepPrintable(Head(s)) < 0 THEN <<>>
    ELSE <<KeepPrintable(Head(s))>> \o SanitizeUntilBad(Tail(s))

\* strings.Map(KeepPrintable, s): the runes of s in order, each mapped, the
\* negative results dropped.
RECURSIVE Sanitize(_)
Sanitize(s) ==
    IF s = <<>> THEN <<>>
    ELSE LET m == KeepPrintable(Head(s))
         IN  (IF m >= 0 THEN <<m>> ELSE <<>>) \o Sanitize(Tail(s))

\* Fault: the status code of the answer is not looked at.
IndexFailedTransportOnly(o) == o = "neterr"

\* doIndexRequest returns an error: the transport failed or the status is
\* not http.StatusCreated.
IndexFailed(o) == o # "201"

\* Fault: every type that is not a pdf is taken for an image.
CategoryNoDefault(t) ==
    IF t = "application/pdf" THEN "pdf" ELSE "image"

\* The switch on req.AttachmentType: the content category, "" for default.
Category(t) ==
    CASE t \in {"image/jpeg", "image/png"} -> "image"
      [] t = "application/pdf" -> "pdf"
      [] OTHER -> ""

\* Fault: the attachment itself is not tested.
HasAttachmentTypeOnly(st, rq) == st /\ rq.AttachmentType # ""

\* The condition guarding the attachment block.
HasAttachment(st, rq) ==
    st /\ ~rq.Attachment.isNil /\ rq.AttachmentType # ""

\* The URL storeFile returns for path /imessage/<category>/<uuid>.
ObjectUrl(category, id) == [category |-> category, id |-> id]

\* Fault: the pdf branch builds an "image" body.
AttBodyAlwaysImage(category, url) == [type |-> "image", url |-> url]

\* The index body built after a successful upload.
AttBody(category, url) == [type |-> category, url |-> url]

IndexCall(type, text, url, from, o) ==
    [call |-> "index", type |-> type, text |-> text, url |-> url,
     bytes |-> <<>>, from |-> from, outcome |-> o]

StoreCall(category, bytes, url, o) ==
    [call |-> "store", type |-> category, text |-> <<>>, url |-> url,
     bytes |-> bytes, from |-> "", outcome |-> o]

\* Where the handler goes once the text part is over: to the upload, or to
\* its end (no attachment block, or the default case of the switch).
AfterText(st, rq) ==
    IF HasAttachment(st, rq) /\ Category(rq.AttachmentType) # ""
    THEN "store" ELSE "done"

\* The handler moves to position next; returning without having written a
\* response makes net/http answer 200.
Goto(r, next) ==
    /\ pc' = [pc EXCEPT ![r] = next]
    /\ status' = [status EXCEPT ![r] = IF next = "done" THEN 200 ELSE @]

\* http.Error(w, ..., code) followed by return.
Fail(r, code) ==
    /\ pc' = [pc EXCEPT ![r] = "done"]
    /\ status' = [status EXCEPT ![r] = code]

----------------------------------------------------------------------------
(* Webhook ingester: the handler, one step per downstream call. *)

\* Fault: req is one variable shared by all handler invocations.
ReceiveSharedReq(r, b) ==
    /\ pc[r] = "idle"
    /\ body' = [body EXCEPT ![r] = b]
    /\ IF ~DecodeOK(b)
       THEN /\ Fail(r, 400)
            /\ UNCHANGED req
       ELSE LET rq == [b EXCEPT !.Message = Sanitize(b.Message)]
            IN  /\ req' = [s \in Reqs |-> rq]
                /\ Goto(r, IF rq.Message # <<>> THEN "text"
                                                ELSE AfterText(storage, rq))
    /\ UNCHANGED <<storage, att, calls>>

\* A request arrives: decode the body, sanitize the message.
Receive(r, b) ==
    /\ pc[r] = "idle"
    /\ body' = [body EXCEPT ![r] = b]
    /\ IF ~DecodeOK(b)
       THEN /\ Fail(r, 400)
            /\ UNCHANGED req
       ELSE LET rq == [b EXCEPT !.Message = Sanitize(b.Message)]
            IN  /\ req' = [req EXCEPT ![r] = rq]
                /\ Goto(r, IF rq.Message # <<>> THEN "text"
                                                ELSE AfterText(storage, rq))
    /\ UNCHANGED <<storage, att, calls>>

\* doIndexRequest for the text.
DoTextIndex(r, o) ==
    /\ pc[r] = "text"
    /\ calls' = [calls EXCEPT ![r] =
                    Append(@, IndexCall("text", req[r].Message, NoUrl,
                                        req[r].From, o))]
    /\ IF IndexFailed(o) THEN Fail(r, 500)
                         ELSE Goto(r, AfterText(storage, req[r]))
    /\ UNCHANGED <<storage, body, req, att>>

\* storeFile for the attachment, under a fresh uuid.
StoreFile(r, id, o) ==
    /\ pc[r] = "store"
    /\ LET category == Category(req[r].AttachmentType)
           url == IF o = "ok" THEN ObjectUrl(category, id) ELSE NoUrl
       IN  /\ calls' = [calls EXCEPT ![r] =
                          Append(@, StoreCall(category,
                                              req[r].Attachment.bytes, url, o))]
           /\ IF o # "ok"
              THEN Fail(r, 500) /\ UNCHANGED att
              ELSE /\ att' = [att EXCEPT ![r] = AttBody(category, url)]
                   /\ Goto(r, "index")
    /\ UNCHANGED <<storage, body, req>>

\* doIndexRequest for the attachment body.
DoAttIndex(r, o) ==
    /\ pc[r] = "index"
    /\ calls' = [calls EXCEPT ![r] =
                    Append(@, IndexCall(att[r].type, <<>>, att[r].url,
                                        req[r].From, o))]
    /\ IF IndexFailed(o) THEN Fail(r, 500) ELSE Goto(r, "done")
    /\ UNCHANGED <<storage, body, req, att>>

Handler(r) ==
    \/ pc[r] = "idle" /\ \E b \in Bodies : Receive(r, b)
    \/ \E o \in IndexOutcomes : DoTextIndex(r, o)
    \/ \E id \in 1..MaxUuid, o \in StoreOutcomes : StoreFile(r, id, o)
    \/ \E o \in IndexOutcomes : DoAttIndex(r, o)

----------------------------------------------------------------------------
(* Chatbot: data.  A text is a sequence of tokens (words and white space). *)

Inbound == "inbound"

Outbound == "outbound"

\* The variants: long-term-memory/ltm.go and the plain GPT-3 chatbot, which
\* call the completion API, and the echo bot.
Variants == {"ltm", "gpt", "echo"}

\* Message; the Timestamp field is never read.
Msg(dir, text) == [Direction |-> dir, Text |-> text]

Hello == <<"Hello, who are you?">>

IAm == <<"I am an AI created by OpenAI. How can I help you today?">>

Quit == <<"quit">>

\* Lines scanner.Text() may return.
Lines == {<<>>, <<" ">>, <<"quit">>, <<" ", "quit", " ">>,
          <<"hi">>, <<"\t", "yo", " ">>}

\* resp.Choices[0].Text of a completion.
RawReplies == {<<" ", "ok">>, <<"no", "\n">>, <<"\n">>}

\* What CompletionWithEngine may return: an error, or a list of choices.
CompletionOutcomes ==
    {[err |-> TRUE, choices |-> <<>>], [err |-> FALSE, choices |-> <<>>]}
    \cup {[err |-> FALSE, choices |-> <<t>>] : t \in RawReplies}

\* What CreateObject followed by Wait may yield: an error of either call, or
\* the object with its indexing status.
ObjectOutcomes == {"ready", "err", "waiterr", "notready"}

DeleteOutcomes == {"ok", "err"}

\* unicode white space (strings.TrimSpace) and the cutset of strings.Trim
SpaceTokens == {" ", "\t", "\n", "\r"}

TrimCutset == {" ", "\n", "\t"}

Preamble ==
    "The following is a conversation with an AI assistant. The assistant is helpful, creative, clever, and very friendly."

ConvHeader == "The conversation goes as follows:\n"

\* history.LastN(5)
HistoryWindow == 5

\* SearchContentsArgs.Max
SearchMax == 5

Ev(op, text, dir, outcome) ==
    [op |-> op, text |-> text, dir |-> dir, outcome |-> outcome]

----------------------------------------------------------------------------
(* Chatbot: helpers. *)

Min(a, b) == IF a < b THEN a ELSE b

RECURSIVE TrimLeft(_, _)
TrimLeft(s, cut) ==
    IF s # <<>> /\ Head(s) \in cut THEN TrimLeft(Tail(s), cut) ELSE s

RECURSIVE TrimRight(_, _)
TrimRight(s, cut) ==
    IF s # <<>> /\ s[Len(s)] \in cut
    THEN TrimRight(SubSeq(s, 1, Len(s) - 1), cut) ELSE s

\* strings.Trim(s, cutset)
Trim(s, cut) == TrimRight(TrimLeft(s, cut), cut)

\* strings.TrimSpace(s)
TrimSpace(s) == Trim(s, SpaceTokens)

\* The trimmed first choice: strings.Trim(.., " \n\t") in ltm.go,
\* strings.TrimSpace in the plain chatbot.
TrimReply(v, t) == IF v = "ltm" THEN Trim(t, TrimCutset) ELSE TrimSpace(t)

\* Fault: the slice is taken from the front.
LastNFirst(h, n) ==
    IF Len(h) < n THEN h ELSE SubSeq(h, 1, n)

\* MessageHistory.LastN
LastN(h, n) ==
    IF Len(h) < n THEN h ELSE SubSeq(h, Len(h) - n + 1, Len(h))

\* Fault: the two labels are swapped.
RenderTurnSwapped(m) ==
    <<IF m.Direction = Inbound THEN "AI: " ELSE "Human: ">>
    \o m.Text \o <<"\n">>

\* One turn of the immediate context.
RenderTurn(m) ==
    <<IF m.Direction = Inbound THEN "Human: " ELSE "AI: ">>
    \o m.Text \o <<"\n">>

RECURSIVE RenderTurns(_)
RenderTurns(h) ==
    IF h = <<>> THEN <<>> ELSE RenderTurn(Head(h)) \o RenderTurns(Tail(h))

RECURSIVE Bullets(_)
Bullets(cs) ==
    IF cs = <<>> THEN <<>>
    ELSE <<"- ">> \o Head(cs) \o <<"\n">> \o Bullets(Tail(cs))

\* The long-term context block, written only for a non-empty result.
LongTermBlock(cs) ==
    IF Len(cs) > 0
    THEN <<"Relevant previous messages from Human:\n">> \o Bullets(cs)
         \o <<"\n">>
    ELSE <<>>

\* builder.String() when the completion request is fired.
BuildPrompt(v, cl, cs, h, msg) ==
    <<Preamble, "\n\n">>
    \o (IF v = "ltm"
        THEN (IF cl THEN LongTermBlock(cs) ELSE <<>>) \o <<ConvHeader>>
        ELSE <<>>)
    \o RenderTurns(LastN(h, HistoryWindow))
    \o <<"Human: ">> \o msg \o <<"\nAI:">>

\* The completion call failed or returned zero choices.
CompletionFailed(o) == o.err \/ Len(o.choices) = 0

\* Fault: indexMessage always takes its no-op path.
NeedsIndexNever(text) == FALSE

\* indexMessage goes to the API: a client, a collection and a non-empty text.
NeedsIndex(text) ==
    variant = "ltm" /\ client /\ collectionID # 0 /\ text # <<>>

\* The result lists SearchContents may return: at most Max contents of
\* distinct objects of the collection that match the direction filter.
\* Fault: the search request carries no direction filter.
SearchFilterAny == {Inbound, Outbound}

\* Filter of the search request: messages sent by the user only.
SearchFilter == {Inbound}

InboundObjects ==
    {i \in 1..Len(objects) :
        objects[i].direction \in SearchFilter /\ objects[i].ready}

SearchResultsUpTo(max) ==
    LET ks == 0..Min(max, Cardinality(InboundObjects))
        pick(k) == {f \in [1..k -> InboundObjects] :
                       \A i, j \in 1..k : f[i] = f[j] => i = j}
    IN  UNION {{[i \in 1..k |-> objects[f[i]].text] : f \in pick(k)} : k \in ks}

SearchResults == SearchResultsUpTo(Min(SearchMax, MaxHits))

----------------------------------------------------------------------------
(* Chatbot: run(), one step per external call or line read. *)

\* Environment lookup and client construction.
Start(key, opkey) ==
    /\ cpc = "start"
    /\ IF variant = "echo"
       THEN /\ cpc' = "read"
            /\ UNCHANGED <<client, cerr>>
       ELSE IF ~key
       THEN /\ cerr' = "OPENAI_KEY not set"
            /\ cpc' = "done"
            /\ UNCHANGED client
       ELSE /\ client' = (variant = "ltm" /\ opkey)
            /\ cpc' = IF client' THEN "create" ELSE "log0u"
            /\ UNCHANGED cerr
    /\ UNCHANGED <<variant, collectionID, deferred, mh, objects, nread,
                   message, contents, prompt, response, events>>

\* CreateObject of the collection, Wait, the readiness check, the defer.
CreateCollection(o) ==
    /\ cpc = "create"
    /\ events' = Append(events, Ev("create", <<>>, "", o))
    /\ IF o = "ready"
       THEN /\ collectionID' = 1
            /\ deferred' = TRUE
            /\ cpc' = "log0u"
            /\ UNCHANGED cerr
       ELSE /\ cerr' = o
            /\ cpc' = "done"
            /\ UNCHANGED <<collectionID, deferred>>
    /\ UNCHANGED <<variant, client, mh, objects, nread, message, contents,
                   prompt, response>>

\* mh.indexMessage(m) and, when it returned nil, the append of m; run()
\* returns the error otherwise. The echo bot's methods have value
\* receivers: they append to their own copy of the slice header, the
\* caller's history keeps its length.
LogMessage(m, o, next) ==
    IF NeedsIndex(m.Text)
    THEN /\ events' = Append(events, Ev("index", m.Text, m.Direction, o))
         /\ objects' = IF o = "err" THEN objects
                       ELSE Append(objects, [text |-> m.Text,
                                             direction |-> m.Direction,
                                             ready |-> o = "ready"])
         /\ IF o = "ready"
            THEN /\ mh' = Append(mh, m)
                 /\ cpc' = next
                 /\ UNCHANGED cerr
            ELSE /\ cerr' = "index"
                 /\ cpc' = "exit"
                 /\ UNCHANGED mh
    ELSE /\ o = "ready"
         /\ mh' = IF variant = "echo" THEN mh ELSE Append(mh, m)
         /\ cpc' = next
         /\ UNCHANGED <<events, objects, cerr>>

LogFromUser(o) ==
    /\ cpc \in {"log0u", "logu"}
    /\ LogMessage(Msg(Inbound, IF cpc = "log0u" THEN Hello ELSE message), o,
                  IF cpc = "log0u" THEN "log0b" ELSE "logb")
    /\ prompt' = <<>>
    /\ contents' = <<>>
    /\ UNCHANGED <<variant, client, collectionID, deferred, nread, message,
                   response>>

LogFromChatbot(o) ==
    /\ cpc \in {"log0b", "logb"}
    /\ LogMessage(Msg(Outbound, IF cpc = "log0b" THEN IAm ELSE response), o,
                  "read")
    /\ message' = <<>>
    /\ response' = <<>>
    /\ UNCHANGED <<variant, client, collectionID, deferred, nread, contents,
                   prompt>>

\* scanner.Scan() returned a line.
ReadLine(line) ==
    /\ cpc = "read"
    /\ nread < MaxLines
    /\ nread' = nread + 1
    /\ LET m == TrimSpace(line)
       IN  /\ message' = m
           /\ cpc' = IF m = Quit THEN "exit"
                     ELSE IF m = <<>> THEN "read"
                     ELSE IF variant = "echo" THEN "echo"
                     ELSE IF client THEN "search" ELSE "complete"
    /\ UNCHANGED <<variant, client, collectionID, deferred, mh, objects,
                   contents, prompt, response, events, cerr>>

\* The echo bot: the response is the message; run() prints the "Bot: " line.
Echo ==
    /\ cpc = "echo"
    /\ response' = message
    /\ events' = Append(events, Ev("print", message, "", "ok"))
    /\ cpc' = "logu"
    /\ UNCHANGED <<variant, client, collectionID, deferred, mh, objects,
                   nread, message, contents, prompt, cerr>>

\* scanner.Scan() returned false.
EndOfInput ==
    /\ cpc = "read"
    /\ cpc' = "exit"
    /\ UNCHANGED <<variant, client, collectionID, deferred, mh, objects,
                   nread, message, contents, prompt, response, events, cerr>>

\* GenerateResponse: SearchContents for the long-term context.
Search(ok, res) ==
    /\ cpc = "search"
    /\ events' = Append(events, Ev("search", message, Inbound,
                                  IF ok THEN "ok" ELSE "err"))
    /\ IF ok
       THEN /\ contents' = res
            /\ cpc' = "complete"
            /\ UNCHANGED cerr
       ELSE /\ res = <<>>
            /\ cerr' = "search"
            /\ cpc' = "exit"
            /\ UNCHANGED contents
    /\ UNCHANGED <<variant, client, collectionID, deferred, mh, objects,
                   nread, message, prompt, response>>

\* GenerateResponse returns an error after the completion call; run()
\* returns it.
CompleteErr(o) ==
    /\ events' = Append(events, Ev("completion", <<>>, "",
                                  IF o.err THEN "err" ELSE "zero"))
    /\ cerr' = IF o.err THEN "completion"
               ELSE "openai returned zero choices"
    /\ cpc' = "exit"
    /\ UNCHANGED response

\* GenerateResponse returns the reply; run() prints the "Bot: " line.
CompleteOK(o, reply) ==
    /\ events' = events \o
          <<Ev("completion", <<>>, "",
               IF o.choices = <<>> THEN "zero" ELSE "ok"),
            Ev("print", reply, "", "ok")>>
    /\ response' = reply
    /\ cpc' = "logu"
    /\ UNCHANGED cerr

CompleteFrame ==
    /\ cpc = "complete"
    /\ prompt' = BuildPrompt(variant, client, contents, mh, message)
    /\ UNCHANGED <<variant, client, collectionID, deferred, mh, objects,
                   nread, message, contents>>

\* Fault: zero choices are taken for an empty reply.
CompleteEmptyReplyOnZero(o) ==
    /\ CompleteFrame
    /\ IF o.err THEN CompleteErr(o)
       ELSE CompleteOK(o, IF o.choices = <<>> THEN <<>>
                          ELSE TrimReply(variant, o.choices[1]))

\* GenerateResponse: the completion request and what follows it.
Complete(o) ==
    /\ CompleteFrame
    /\ IF CompletionFailed(o) THEN CompleteErr(o)
       ELSE CompleteOK(o, TrimReply(variant, o.choices[1]))

\* run() returns: the deferred DeleteObject, if registered.
Exit(o) ==
    /\ cpc = "exit"
    /\ cpc' = "done"
    /\ IF deferred
       THEN events' = Append(events, Ev("delete", <<>>, "", o))
       ELSE o = "ok" /\ UNCHANGED events
    /\ UNCHANGED <<variant, client, collectionID, deferred, mh, objects,
                   nread, message, contents, prompt, response, cerr>>

CInit ==
    /\ variant \in Variants
    /\ cpc = "start"
    /\ client = FALSE
    /\ collectionID = 0
    /\ deferred = FALSE
    /\ mh = <<>>
    /\ objects = <<>>
    /\ nread = 0
    /\ message = <<>>
    /\ contents = <<>>
    /\ prompt = <<>>
    /\ response = <<>>
    /\ events = <<>>
    /\ cerr = ""

----------------------------------------------------------------------------
(* LastN on its own: any history, any n >= 0. *)

SampleMessages ==
    {Msg(Inbound, <<"hi">>), Msg(Outbound, <<"ok">>),
     Msg(Inbound, <<"yo">>), Msg(Outbound, <<>>)}

Histories == UNION {[1..k -> SampleMessages] : k \in 0..MaxHist}

CallLastN ==
    /\ lpc = "call"
    /\ lres' = LastN(lhist, ln)
    /\ lpc' = "ret"
    /\ UNCHANGED <<lhist, ln>>

LInit ==
    /\ lhist \in Histories
    /\ ln \in 0..MaxN
    /\ lres = <<>>
    /\ lpc = "call"

----------------------------------------------------------------------------
(* Specifications. *)

HInit ==
    /\ storage \in BOOLEAN
    /\ pc = [r \in Reqs |-> "idle"]
    /\ body = [r \in Reqs |-> Malformed]
    /\ req = [r \in Reqs |-> Malformed]
    /\ att = [r \in Reqs |-> NoBody]
    /\ calls = [r \in Reqs |-> <<>>]
    /\ status = [r \in Reqs |-> 0]

\* The part of the state a specification does not use.
HIdle == HInit /\ storage = FALSE

CIdle == CInit /\ variant = "ltm"

LIdle == LInit /\ lhist = <<>> /\ ln = 0

vars == <<hvars, cvars, lvars>>

\* The ingester: one request, handled from arrival to response.
Init == HInit /\ CIdle /\ LIdle

Next ==
    \/ (pc[1] = "idle" /\ \E b \in Bodies : Receive(1, b))
          /\ UNCHANGED <<cvars, lvars>>
    \/ (\E o \in IndexOutcomes : DoTextIndex(1, o))
          /\ UNCHANGED <<cvars, lvars>>
    \/ (\E id \in 1..MaxUuid, o \in StoreOutcomes : StoreFile(1, id, o))
          /\ UNCHANGED <<cvars, lvars>>
    \/ (\E o \in IndexOutcomes : DoAttIndex(1, o))
          /\ UNCHANGED <<cvars, lvars>>

Spec == Init /\ [][Next]_vars

\* The chatbot: one run of the program.
ChatInit == CInit /\ HIdle /\ LIdle

ChatNext ==
    \/ (\E key, opkey \in BOOLEAN : Start(key, opkey))
          /\ UNCHANGED <<hvars, lvars>>
    \/ (\E o \in ObjectOutcomes : CreateCollection(o))
          /\ UNCHANGED <<hvars, lvars>>
    \/ (\E o \in ObjectOutcomes : LogFromUser(o))
          /\ UNCHANGED <<hvars, lvars>>
    \/ (\E o \in ObjectOutcomes : LogFromChatbot(o))
          /\ UNCHANGED <<hvars, lvars>>
    \/ (\E line \in Lines : ReadLine(line)) /\ UNCHANGED <<hvars, lvars>>
    \/ EndOfInput /\ UNCHANGED <<hvars, lvars>>
    \/ Echo /\ UNCHANGED <<hvars, lvars>>
    \/ (\E ok \in BOOLEAN, res \in SearchResults : Search(ok, res))
          /\ UNCHANGED <<hvars, lvars>>
    \/ (\E o \in CompletionOutcomes : Complete(o))
          /\ UNCHANGED <<hvars, lvars>>
    \/ (\E o \in DeleteOutcomes : Exit(o)) /\ UNCHANGED <<hvars, lvars>>

ChatSpec == ChatInit /\ [][ChatNext]_vars

\* The ingester serving several requests at once: net/http runs each
\* handler invocation in a goroutine of its own, interleaved at the
\* downstream calls.
ConcBodies ==
    {Malformed} \cup
    [ok : {TRUE}, From : Senders, Message : {<<>>, <<104>>},
     Attachment : {NilAttachment, [isNil |-> FALSE, bytes |-> <<37>>]},
     AttachmentType : {"image/png", "application/pdf", "image/gif"}]

ConcNext ==
    \/ (\E r \in Reqs : pc[r] = "idle" /\ \E b \in ConcBodies : Receive(r, b))
          /\ UNCHANGED <<cvars, lvars>>
    \/ (\E r \in Reqs, o \in IndexOutcomes : DoTextIndex(r, o))
          /\ UNCHANGED <<cvars, lvars>>
    \/ (\E r \in Reqs, id \in 1..MaxUuid, o \in StoreOutcomes :
            StoreFile(r, id, o))
          /\ UNCHANGED <<cvars, lvars>>
    \/ (\E r \in Reqs, o \in IndexOutcomes : DoAttIndex(r, o))
          /\ UNCHANGED <<cvars, lvars>>

ConcSpec == Init /\ [][ConcNext]_vars

\* GenerateResponse called for the next line of a run that has completed
\* k turns: the history, and the collection when a client is configured,
\* hold the two opening messages and the k lines and replies.
PastLine(j) == [i \in 1..j |-> "hi"]

PastReply(j) == [i \in 1..j |-> "ok"]

RECURSIVE PastHistory(_)
PastHistory(k) ==
    IF k = 0 THEN <<Msg(Inbound, Hello), Msg(Outbound, IAm)>>
    ELSE PastHistory(k - 1)
         \o <<Msg(Inbound, PastLine(k)), Msg(Outbound, PastReply(k))>>

PromptInit ==
    /\ HIdle /\ LIdle
    /\ variant = "ltm"
    /\ cpc = "read"
    /\ client \in BOOLEAN
    /\ collectionID = IF client THEN 1 ELSE 0
    /\ deferred = client
    /\ \E k \in 0..MaxTurns :
          /\ mh = PastHistory(k)
          /\ objects = IF client
                       THEN [i \in 1..Len(mh) |->
                               [text |-> mh[i].Text,
                                direction |-> mh[i].Direction,
                                ready |-> TRUE]]
                       ELSE <<>>
    /\ nread = 0
    /\ message = <<>>
    /\ contents = <<>>
    /\ prompt = <<>>
    /\ response = <<>>
    /\ events = <<>>
    /\ cerr = ""

PromptNext ==
    \/ (\E line \in Lines : ReadLine(line)) /\ UNCHANGED <<hvars, lvars>>
    \/ (cpc = "search"
          /\ \E ok \in BOOLEAN, res \in SearchResultsUpTo(SearchMax) :
                Search(ok, res))
          /\ UNCHANGED <<hvars, lvars>>
    \/ (\E o \in CompletionOutcomes : Complete(o))
          /\ UNCHANGED <<hvars, lvars>>

PromptSpec == PromptInit /\ [][PromptNext]_vars

\* LastN applied once to an arbitrary history.
LastNInit == LInit /\ HIdle /\ CIdle

LastNNext == CallLastN /\ UNCHANGED <<hvars, cvars>>

LastNSpec == LastNInit /\ [][LastNNext]_vars

----------------------------------------------------------------------------
(* Webhook ingester: properties. *)

Recognized == {"image/jpeg", "image/png", "application/pdf"}

Done(r) == pc[r] = "done"

Decoded(r) == pc[r] # "idle" /\ body[r].ok

CallFailed(c) ==
    \/ c.call = "index" /\ c.outcome # "201"
    \/ c.call = "store" /\ c.outcome # "ok"

IsTextIndex(c) == c.call = "index" /\ c.type = "text"

IsAttIndex(c) == c.call = "index" /\ c.type # "text"

IsStore(c) == c.call = "store"

CallsOf(r) == {calls[r][i] : i \in 1..Len(calls[r])}

\* The printable runes of a text, in order.
PrintablePart(s) == SelectSeq(s, LAMBDA c : c \in PrintableRunes)

\* C1: an index request (and the upload before it) is made only for
\* non-empty content of a recognized type: a "text" request only for a
\* non-empty sanitized text, an "image"/"pdf" request and its upload only
\* for non-empty attachment bytes of a recognized MIME type.
C1_IndexOnlyNonEmptyRecognized ==
    \A r \in Reqs : \A c \in CallsOf(r) :
        /\ IsTextIndex(c) => c.text # <<>>
        /\ (IsAttIndex(c) \/ IsStore(c)) =>
              /\ body[r].Attachment.bytes # <<>>
              /\ body[r].AttachmentType \in Recognized

\* C2: a failed downstream call is the last call of its request, and the
\* request is answered 500 by the step that made it.
C2_FirstFailureAborts ==
    \A r \in Reqs : \A i \in 1..Len(calls[r]) :
        CallFailed(calls[r][i]) =>
            /\ i = Len(calls[r])
            /\ Done(r)
            /\ status[r] = 500

\* C2 witness: the text index request failed for a message whose attachment
\* would otherwise have been uploaded and indexed.
C2_Witness ==
    /\ Done(1) /\ status[1] = 500 /\ storage
    /\ Len(calls[1]) = 1 /\ IsTextIndex(calls[1][1])
    /\ calls[1][1].outcome = "500"
    /\ body[1].Attachment.bytes # <<>>
    /\ body[1].AttachmentType = "image/png"

\* C3: an attachment of an unrecognized MIME type causes no upload and no
\* attachment index request; the text is indexed as without it, and the
\* response is 500 only when that text request failed.
C3_UnrecognizedTypeSkipped ==
    \A r \in Reqs :
        (Decoded(r) /\ body[r].AttachmentType \notin Recognized) =>
            /\ \A c \in CallsOf(r) : IsTextIndex(c)
            /\ Len(calls[r]) <= 1
            /\ Done(r) =>
                  /\ Len(calls[r]) = 1 <=> PrintablePart(body[r].Message) # <<>>
                  /\ \A c \in CallsOf(r) :
                        /\ c.text = PrintablePart(body[r].Message)
                        /\ c.from = body[r].From
                  /\ status[r] = IF \E c \in CallsOf(r) : CallFailed(c)
                                 THEN 500 ELSE 200

\* C3 witness: an image/gif attachment with bytes, storage configured, and a
\* text that was indexed; the response is 200.
C3_Witness ==
    /\ Done(1) /\ status[1] = 200 /\ storage
    /\ body[1].AttachmentType = "image/gif"
    /\ body[1].Attachment.bytes # <<>>
    /\ Len(calls[1]) = 1 /\ calls[1][1].outcome = "201"

\* C4: a finished request has exactly one status: 400 exactly when the body
\* did not decode (and then no call was made), 500 exactly when a downstream
\* call failed, 200 otherwise; an unfinished one has none.
C4_StatusOutcome ==
    \A r \in Reqs :
        IF Done(r)
        THEN /\ status[r] \in {200, 400, 500}
             /\ status[r] = 400 <=> ~body[r].ok
             /\ status[r] = 400 => calls[r] = <<>>
             /\ status[r] = 500 <=> \E c \in CallsOf(r) : CallFailed(c)
        ELSE status[r] = 0

\* C4 witness: a well-formed request for which nothing was indexed, answered
\* 200.
C4_Witness ==
    /\ Done(1) /\ body[1].ok /\ calls[1] = <<>> /\ status[1] = 200

\* C5: an attachment index request directly follows the successful upload of
\* that attachment, has type "image" for image/jpeg and image/png and "pdf"
\* for application/pdf, and carries the URL that upload returned; a request
\* with a recognized attachment and storage configured that was not aborted
\* before made the upload; without storage there is neither.
C5_UploadThenIndex ==
    \A r \in Reqs :
        /\ \A i \in 1..Len(calls[r]) :
              /\ IsAttIndex(calls[r][i]) =>
                    /\ i > 1
                    /\ IsStore(calls[r][i - 1])
                    /\ calls[r][i - 1].outcome = "ok"
                    /\ calls[r][i - 1].url # NoUrl
                    /\ calls[r][i].url = calls[r][i - 1].url
                    /\ calls[r][i].from = body[r].From
                    /\ calls[r][i].type =
                         (IF body[r].AttachmentType = "application/pdf"
                          THEN "pdf" ELSE "image")
              /\ IsStore(calls[r][i]) =>
                    /\ body[r].AttachmentType \in Recognized
                    /\ calls[r][i].bytes = body[r].Attachment.bytes
                    /\ calls[r][i].outcome = "ok" =>
                          /\ calls[r][i].url.category = calls[r][i].type
                          /\ Done(r) \/ pc[r] = "index"
                          /\ Done(r) => i < Len(calls[r])
        /\ (/\ Done(r) /\ body[r].ok /\ storage
            /\ ~body[r].Attachment.isNil
            /\ body[r].AttachmentType \in Recognized
            /\ \A c \in CallsOf(r) : IsTextIndex(c) => ~CallFailed(c))
           => \E c \in CallsOf(r) : IsStore(c)
        /\ ~storage => \A c \in CallsOf(r) : IsTextIndex(c)

\* C5 witness: a pdf uploaded and then indexed under the returned URL.
C5_Witness ==
    /\ Done(1) /\ status[1] = 200 /\ Len(calls[1]) = 2
    /\ IsStore(calls[1][1]) /\ calls[1][2].type = "pdf"
    /\ calls[1][2].url = ObjectUrl("pdf", MaxUuid)

\* C6: a message whose text has no printable rune and which has no
\* attachment makes no downstream call at all.
C6_EmptyMessageNoCalls ==
    \A r \in Reqs :
        (/\ Decoded(r)
         /\ \A i \in 1..Len(body[r].Message) :
               body[r].Message[i] \notin PrintableRunes
         /\ body[r].Attachment.isNil)
        => calls[r] = <<>> /\ Done(r) /\ status[r] = 200

\* C6 witness: a text of non-printable runes only, no attachment although a
\* MIME type is given and storage is configured.
C6_Witness ==
    /\ Done(1) /\ storage /\ body[1].ok
    /\ body[1].Message # <<>> /\ req[1].Message = <<>>
    /\ body[1].Attachment.isNil /\ body[1].AttachmentType = "image/png"
    /\ calls[1] = <<>>

\* C7: the sanitized text, and the text of the "text" index request, is the
\* subsequence of the printable runes of the received text, in order.
C7_SanitizedIsPrintableSubsequence ==
    \A r \in Reqs :
        Decoded(r) =>
            /\ req[r].Message = PrintablePart(body[r].Message)
            /\ \A c \in CallsOf(r) :
                  IsTextIndex(c) => c.text = PrintablePart(body[r].Message)

\* C7 witness: a text with a non-printable rune between printable ones was
\* indexed without it.
C7_Witness ==
    /\ body[1].Message = <<104, 7, 32>>
    /\ calls[1] # <<>> /\ IsTextIndex(calls[1][1])
    /\ calls[1][1].text = <<104, 32>>

\* The calls a request with body b makes when handled alone, outcomes apart:
\* the text request if the text has a printable rune, then the upload and
\* the attachment request if storage is configured and the attachment is
\* there with a recognized type.
SoloShape(b) ==
    LET text == PrintablePart(b.Message)
        cat == IF b.AttachmentType = "application/pdf" THEN "pdf" ELSE "image"
        t == IF b.ok /\ text # <<>>
             THEN <<[call |-> "index", type |-> "text", text |-> text,
                     bytes |-> <<>>, from |-> b.From]>>
             ELSE <<>>
        a == IF /\ b.ok /\ storage /\ ~b.Attachment.isNil
                /\ b.AttachmentType \in Recognized
             THEN <<[call |-> "store", type |-> cat, text |-> <<>>,
                     bytes |-> b.Attachment.bytes, from |-> ""],
                    [call |-> "index", type |-> cat, text |-> <<>>,
                     bytes |-> <<>>, from |-> b.From]>>
             ELSE <<>>
    IN  t \o a

ShapeOf(c) ==
    [call |-> c.call, type |-> c.type, text |-> c.text, bytes |-> c.bytes,
     from |-> c.from]

\* C11: whatever the other requests do, a request has sent a prefix of the
\* calls it sends when handled alone (same kinds, content and sender, the
\* attachment request under the URL of its own upload), no call after a
\* failed one, and once answered its status is the one of a lone run: 400
\* for a body that does not decode, 500 after a failed call, 200 after all
\* its calls succeeded.
C11_RequestsIndependent ==
    \A r \in Reqs :
        pc[r] # "idle" =>
            LET shape == SoloShape(body[r])
                n == Len(calls[r])
                failed == n > 0 /\ CallFailed(calls[r][n])
            IN  /\ n <= Len(shape)
                /\ \A i \in 1..n :
                      /\ ShapeOf(calls[r][i]) = shape[i]
                      /\ i < n => ~CallFailed(calls[r][i])
                      /\ IsAttIndex(calls[r][i]) =>
                            calls[r][i].url = calls[r][i - 1].url
                /\ IF Done(r)
                   THEN /\ failed \/ n = Len(shape)
                        /\ status[r] = IF ~body[r].ok THEN 400
                                       ELSE IF failed THEN 500 ELSE 200
                   ELSE /\ ~failed /\ n < Len(shape) /\ status[r] = 0
                        /\ pc[r] = (IF shape[n + 1].call = "store" THEN "store"
                                    ELSE IF shape[n + 1].type = "text"
                                    THEN "text" ELSE "index")

\* C11 witness: two requests of different senders and content in flight at
\* once, one before its upload, the other between its upload and its index
\* request.
C11_Witness ==
    /\ pc[1] = "store" /\ Len(calls[1]) = 1
    /\ pc[2] = "index" /\ Len(calls[2]) = 1
    /\ body[1].From # body[2].From
    /\ body[1].Message # body[2].Message
    /\ body[1].AttachmentType # body[2].AttachmentType

----------------------------------------------------------------------------
(* Chatbot: properties. *)

\* C8: LastN(n) returns the last min(n, len) messages of the history, in
\* order; in particular the whole history when it has fewer than n = 5.
C8_LastNIsSuffix ==
    lpc = "ret" =>
        LET len == Len(lhist)
            k == IF ln < len THEN ln ELSE len
        IN  /\ Len(lres) = k
            /\ \A i \in 1..k : lres[i] = lhist[len - k + i]
            /\ (ln = 5 /\ len < 5) => lres = lhist

\* C8 witness: a history of three distinct messages cut to its last two.
C8_Witness ==
    /\ lpc = "ret" /\ ln = 2 /\ Len(lhist) = 3
    /\ lhist[1] # lhist[2] /\ lhist[2] # lhist[3] /\ lhist[1] # lhist[3]
    /\ lres = <<lhist[2], lhist[3]>>

RECURSIVE Flatten(_)
Flatten(ss) == IF ss = <<>> THEN <<>> ELSE Head(ss) \o Flatten(Tail(ss))

EventsOf(op) == SelectSeq(events, LAMBDA e : e.op = op)

\* The conversation part a prompt must end with, for a history and a new
\* message: the last five turns at most, oldest first, then the new line
\* and the cue.
ExpectedConversation(h, msg) ==
    LET n == IF Len(h) < 5 THEN Len(h) ELSE 5
        line(i) == LET m == h[Len(h) - n + i]
                   IN  <<IF m.Direction = "inbound" THEN "Human: "
                                                    ELSE "AI: ">>
                       \o m.Text \o <<"\n">>
    IN  Flatten([i \in 1..n |-> line(i)]) \o <<"Human: ">> \o msg
        \o <<"\nAI:">>

\* C9: the prompt sent to the completion API ends with the conversation
\* part: the five most recent logged turns at most, oldest first, as
\* "Human: "/"AI: " lines, then one "Human: " line with the new message and
\* the "AI:" cue; nothing before it is a turn; the history it renders holds
\* the completed turns only, the new message is not yet logged.
C9_PromptConversation ==
    prompt # <<>> =>
        LET conv == ExpectedConversation(mh, message)
            k == Len(prompt) - Len(conv)
            turns == Len(EventsOf("print")) - (IF cpc = "logu" THEN 1 ELSE 0)
        IN  /\ k >= 0
            /\ SubSeq(prompt, k + 1, Len(prompt)) = conv
            /\ \A i \in 1..k : prompt[i] \notin {"Human: ", "AI: ", "\nAI:"}
            /\ Len(mh) = 2 + 2 * turns

\* C9 witness: a third turn, whose prompt renders five of the six logged
\* turns.
C9_Witness ==
    /\ cpc = "logu" /\ Len(mh) = 6 /\ client
    /\ mh[3].Text = <<"hi">> /\ mh[5].Text = <<"yo">> /\ message = <<"hi">>
    /\ prompt # <<>>

GenFailed(e) == e.op \in {"search", "completion"} /\ e.outcome # "ok"

\* C10: once a search or completion call has failed or the completion has
\* returned zero choices, the run is over with an error: nothing is printed,
\* indexed or searched after it (only the collection may be deleted), the
\* history holds the completed turns only, and no line is read any more.
C10_FailedTurnEndsLoop ==
    \A i \in 1..Len(events) :
        GenFailed(events[i]) =>
            /\ \A j \in (i + 1)..Len(events) : events[j].op = "delete"
            /\ cpc \in {"exit", "done"}
            /\ cerr # ""
            /\ Len(mh) = 2 + 2 * Len(EventsOf("print"))
            /\ \A t \in 1..Len(EventsOf("print")) :
                  mh[2 + 2 * t].Text = EventsOf("print")[t].text
            /\ Len(objects) = Len(EventsOf("index"))

\* C10 witness: the completion of the second turn returned zero choices,
\* with input left to read; the run ended after deleting the collection.
C10_Witness ==
    /\ cpc = "done" /\ client /\ nread = 2 /\ nread < MaxLines
    /\ cerr = "openai returned zero choices"
    /\ Len(mh) = 4 /\ Len(EventsOf("print")) = 1
    /\ events[Len(events)].op = "delete"
    /\ events[Len(events) - 1].outcome = "zero"

\* The order of the external calls and prints of a run of ltm.go: what may
\* follow event i, and where run() stands when nothing follows it yet.
C12_Follows(i) ==
    LET e == events[i]
        last == i = Len(events)
        nxt == events[i + 1]
        \* the run is over after event i: only the deferred delete follows
        ends == IF last THEN cpc = "exit" \/ (~deferred /\ cpc = "done")
                ELSE nxt.op = "delete"
        \* the turn is over after event i: a next turn or the end follows
        turnOver == IF last THEN cpc \in {"logb", "read", "search", "exit"}
                    ELSE nxt.op \in {"search", "delete"}
    IN  CASE e.op = "create" ->
               IF e.outcome = "ready"
               THEN IF last THEN cpc = "log0u"
                    ELSE nxt.op = "index" /\ nxt.dir = "inbound"
                         /\ nxt.text = Hello
               ELSE last /\ cpc = "done"
          [] e.op = "index" /\ e.outcome # "ready" -> ends
          [] e.op = "index" /\ e.outcome = "ready" /\ e.dir = "inbound" ->
               LET reply == IF i = 2 THEN IAm ELSE events[i - 1].text
               IN  IF reply = <<>> THEN turnOver
                   ELSE IF last THEN cpc \in {"log0b", "logb"}
                   ELSE nxt.op = "index" /\ nxt.dir = "outbound"
                        /\ nxt.text = reply
          [] e.op = "index" /\ e.outcome = "ready" /\ e.dir = "outbound" ->
               IF last THEN cpc \in {"read", "search", "exit"}
               ELSE nxt.op \in {"search", "delete"}
          [] e.op = "search" ->
               /\ client /\ e.text # <<>> /\ e.text # <<"quit">>
               /\ IF e.outcome # "ok" THEN ends
                  ELSE IF last THEN cpc = "complete"
                  ELSE nxt.op = "completion"
          [] e.op = "completion" ->
               /\ client => (i > 1 /\ events[i - 1].op = "search")
               /\ IF e.outcome # "ok" THEN ends
                  ELSE ~last /\ nxt.op = "print"
          [] e.op = "print" ->
               IF client
               THEN IF last THEN cpc = "logu"
                    ELSE nxt.op = "index" /\ nxt.dir = "inbound"
                         /\ nxt.text = events[i - 2].text
               ELSE IF last
                    THEN cpc \in {"logu", "logb", "read", "complete", "exit", "done"}
                    ELSE nxt.op = "completion"
          [] e.op = "delete" -> last /\ cpc = "done"

C12_Order == \A i \in 1..Len(events) : C12_Follows(i)

C13_LongTermContext ==
    variant = "ltm" =>
      /\ contents # <<>> =>
            /\ client
            /\ Len(contents) <= 5
            /\ \A i \in 1..Len(contents) :
                  \E j \in 1..Len(objects) :
                      /\ objects[j].direction = "inbound"
                      /\ objects[j].text = contents[i]
      /\ prompt # <<>> =>
            LET rest == SubSeq(prompt, 3, Len(prompt))
                items == Flatten([i \in 1..Len(contents) |->
                                    <<"- ">> \o contents[i] \o <<"\n">>])
                n == Len(items) + 2
            IN  IF client /\ contents # <<>>
                THEN /\ Len(rest) > n
                     /\ SubSeq(rest, 1, n) =
                          <<"Relevant previous messages from Human:\n">>
                          \o items \o <<"\n">>
                     /\ rest[n + 1] = "The conversation goes as follows:\n"
                ELSE /\ rest[1] = "The conversation goes as follows:\n"
                     /\ \A i \in 1..Len(prompt) :
                           prompt[i] \notin
                             {"Relevant previous messages from Human:\n", "- "}

\* C13 witness: six inbound messages in the collection, five of them
\* returned, the latest first, and listed in the prompt.
C13_Witness ==
    /\ client /\ prompt # <<>> /\ Len(contents) = 5
    /\ Cardinality({j \in 1..Len(objects) :
                       objects[j].direction = "inbound"}) = 6
    /\ contents[1] = <<"hi", "hi", "hi", "hi", "hi">>
    /\ contents[5] = <<"Hello, who are you?">>
    /\ prompt[3] = "Relevant previous messages from Human:\n"

\* A step of LogFromUser or LogFromChatbot in one of the variants vs: a
\* call that returns nil appends exactly the message, indexing it only with
\* a client and a non-empty text; a call whose indexing fails leaves the
\* history as it was; between turns the history holds the turns in order.
C14_Logs(vs) ==
    LET fromUser == cpc \in {"log0u", "logu"}
        fromBot == cpc \in {"log0b", "logb"}
        text == CASE cpc = "log0u" -> <<"Hello, who are you?">>
                  [] cpc = "logu" -> message
                  [] cpc = "log0b" ->
                       <<"I am an AI created by OpenAI. How can I help you today?">>
                  [] OTHER -> response
        dir == IF fromUser THEN "inbound" ELSE "outbound"
        opening == IF variant = "echo" THEN 0 ELSE 2
        prints == SelectSeq(events', LAMBDA e : e.op = "print")
    IN  variant \in vs =>
          /\ ((fromUser \/ fromBot) /\ cpc' # cpc) =>
                IF cpc' = "exit"
                THEN mh' = mh /\ variant = "ltm" /\ client /\ text # <<>>
                ELSE /\ mh' = Append(mh, [Direction |-> dir, Text |-> text])
                     /\ IF variant = "ltm" /\ client /\ text # <<>>
                        THEN events' = Append(events,
                                 [op |-> "index", text |-> text, dir |-> dir,
                                  outcome |-> "ready"])
                        ELSE events' = events /\ objects' = objects
          /\ cpc' = "read" =>
                /\ Len(mh') = opening + 2 * Len(prints)
                /\ \A j \in 1..Len(prints) :
                      /\ mh'[opening + 2 * j - 1].Direction = "inbound"
                      /\ mh'[opening + 2 * j].Direction = "outbound"
                      /\ mh'[opening + 2 * j].Text = prints[j].text

\* C14 as claimed: in every chatbot variant LogFromUser(text) and
\* LogFromChatbot(text) that return without error leave the caller's
\* history one message longer, the message logged, so that the history
\* holds the completed turns in conversation order; a failed indexing
\* leaves it unchanged; no client or an empty text appends without indexing.
C14_LogAppends == [][C14_Logs({"ltm", "gpt", "echo"})]_vars

\* The run is over and, if one of the outcomes os of the collection's
\* creation happened, DeleteObject was called exactly once, after it.
C15_DeletedAfter(os) ==
    LET deletes == {j \in 1..Len(events) : events[j].op = "delete"}
    IN  /\ Cardinality(deletes) <= 1
        /\ (variant = "ltm" /\ cpc = "done") =>
              \A i \in 1..Len(events) :
                  (events[i].op = "create" /\ events[i].outcome \in os) =>
                      \E j \in deletes : j > i

\* C15 as claimed: whenever CreateObject of the per-run collection
\* succeeded (the collection became ready, its Wait failed, or it ended not
\* ready), DeleteObject has been called exactly once by the time run() has
\* returned, whatever the exit path.
C15_CollectionDeleted == C15_DeletedAfter({"ready", "waiterr", "notready"})

====
